---- MODULE Spec2Model ----
(***************************************************************************)
(* MySQLWrapper: one connection handle, CRUD helpers, lazy idle eviction.  *)
(*                                                                         *)
(* Two variants of the class exist in the repository:                      *)
(*   "idle"   build/lib/mysql_wrapper/mysql_wrapper.py  (idle timeout,     *)
(*            reconnect-if-needed, errors re-raised)                       *)
(*   "simple" mysql_wrapper/mysql_wrapper.py            (no idle handling, *)
(*            explicit connect(), errors printed)                          *)
(*                                                                         *)
(* The driver (mysql.connector) is the environment: its connect either     *)
(* returns a fresh live handle or raises Error, a statement either runs,   *)
(* fails with Error on a live handle, or fails because the connection was  *)
(* lost, and the server may drop a live handle between operations.         *)
(*                                                                         *)
(* Every method is an operator from a "world" record to a world record;    *)
(* the world carries the object's fields, the driver's set of live         *)
(* handles, the log of driver calls made by the running operation and the  *)
(* exception in flight.                                                    *)
(***************************************************************************)
EXTENDS Integers, Sequences, FiniteSets

\* ------------------------------------------------------------------ bounds
MaxTime == 3          \* the clock runs 0..MaxTime
MaxIdleTimeout == 2   \* idle_timeout is drawn from -1..MaxIdleTimeout
MaxHandles == 2       \* handles the driver hands out to one manager
MaxRows == 1          \* rows a SELECT returns: none or MaxRows
MaxFields == 2        \* fields of a record: one or MaxFields
MaxBatch == 2         \* records of a data_list: none, one or MaxBatch

\* ------------------------------------------------------- program constants
None == 0             \* self.connection = None: no handle stored

Variants == {"idle", "simple"}
IdleTimeouts == {0 - 1} \cup (0 .. MaxIdleTimeout)
Outcomes == {"ok", "error", "lost", "commit_error"}
\* what cursor.fetchall() can return: a list of rows, possibly empty
Rows == {[i \in 1 .. n |-> i] : n \in {0, MaxRows}}

\* A record is a dict: its items in insertion order. The field names are
\* not in alphabetical order, and every value differs from every other.
FieldNames == <<"b", "a", "c", "d">>
Record(k, j) == [i \in 1 .. k |-> [key |-> FieldNames[i], value |-> 10 * j + i]]
Records == {Record(k, 1) : k \in {1, MaxFields}}
DataLists == {[j \in 1 .. n |-> Record(MaxFields, j)] : n \in {0, 1, MaxBatch}}

VARIABLES
    variant,           \* which class is instantiated
    phase,             \* "none": no manager object, "ready": constructed
    idle_timeout,      \* self.idle_timeout
    now,               \* time.time()
    connection,        \* self.connection: None or a handle
    last_active_time,  \* self.last_active_time
    live,              \* driver: handles for which is_connected() is True
    opened,            \* driver: number of handles handed out so far
    lastOp,            \* name of the last public operation called
    lastArg,           \* its argument shape ("", "empty", "records", "select", "other")
    calls,             \* driver calls made by the last operation, in order
    result,            \* how the last operation ended: [kind, val]
    pre,               \* the manager as the last operation found it
    atReturn,          \* TRUE in the state an operation returned (or raised) in
    hist,              \* history of the operation sequence since construction
    lastUse,           \* time of the last successful driver connect or statement (idle variant)
    fetched,           \* the rows the last operation returned to its caller (<<>> if none)
    sent               \* statements and parameters the last operation handed to the driver

vars == <<variant, phase, idle_timeout, now, connection, last_active_time,
          live, opened, lastOp, lastArg, calls, result, pre, atReturn, hist,
          lastUse,
          fetched,
          sent>>

\* ------------------------------------------------------ statements built
\* data.keys() and tuple(data.values()): both in the dict's insertion order
keys(data) == [i \in DOMAIN data |-> data[i].key]
values(data) == [i \in DOMAIN data |-> data[i].value]

\* A statement as the driver sees it: the verb, the columns named in it and
\* its %s placeholders, in text order (table and where clause pass through).
Statement(verb, columns, placeholders) ==
    [verb |-> verb, columns |-> columns, placeholders |-> placeholders]

\* f"INSERT INTO {table} ({columns}) VALUES ({placeholders})" with
\* columns = ', '.join(data.keys()), placeholders = ', '.join(['%s'] * len(data))
InsertQuery(data) ==
    Statement("INSERT", keys(data), [i \in 1 .. Len(data) |-> "%s"])

\* f"UPDATE {table} SET {set_clause} WHERE {where_clause}" with one
\* "key = %s" per key of data
UpdateQuery(data) ==
    Statement("UPDATE", keys(data), [i \in DOMAIN data |-> "%s"])

DeleteQuery == Statement("DELETE", <<>>, <<>>)
SelectQuery == Statement("SELECT", <<>>, <<>>)
\* the caller's own text, handed to execute_query
RawQuery(select) == Statement(IF select THEN "SELECT" ELSE "OTHER", <<>>, <<>>)

\* the params argument of cursor.execute / cursor.executemany: one tuple of
\* values, a list of such tuples, or None
Tuple(vals) == [form |-> "tuple", val |-> vals]
TupleList(data_list) ==
    [form |-> "list", val |-> [j \in DOMAIN data_list |-> values(data_list[j])]]
NoParams == [form |-> "none", val |-> <<>>]

\* ----------------------------------------------------------- driver model
\* A logged driver call: which call, on which handle, whether it returned
\* (ok) or raised mysql.connector.Error.
Call(c, h, ok) == [call |-> c, h |-> h, ok |-> ok]

\* "self.connection and self.connection.is_connected()"
IsLive(w) == w.connection # None /\ w.connection \in w.live

Log(w, c, ok) == [w EXCEPT !.calls = Append(@, Call(c, w.connection, ok))]

Raise(w, e) == [w EXCEPT !.raised = e]

Return(w, v) == [w EXCEPT !.ret = v]

\* mysql.connector.connect(...): a fresh live handle, or Error
driver_connect(w, ok) ==
    IF ok
    THEN LET h == w.opened + 1
         IN  [w EXCEPT !.connection = h,
                       !.live = @ \cup {h},
                       !.opened = h,
                       !.calls = Append(@, Call("connect", h, TRUE))]
    ELSE Raise([w EXCEPT !.calls = Append(@, Call("connect", None, FALSE))],
               "Error")

\* connection.close(): the handle is no longer live
driver_close(w) ==
    [Log(w, "close", TRUE) EXCEPT !.live = @ \ {w.connection}]

\* connection.cursor(): raises Error when the connection is not available
driver_cursor(w) ==
    IF IsLive(w) THEN Log(w, "cursor", TRUE)
    ELSE Raise(Log(w, "cursor", FALSE), "Error")

\* cursor.execute / cursor.executemany with the driver's outcome `out`
driver_execute(w, c, out) ==
    CASE out \in {"ok", "commit_error"} -> Log(w, c, TRUE)
      [] out = "error" -> Raise(Log(w, c, FALSE), "Error")
      [] out = "lost" ->
           Raise([Log(w, c, FALSE) EXCEPT !.live = @ \ {w.connection}], "Error")

\* cursor.execute(query, params) / cursor.executemany(query, params): what
\* the driver is handed, then the driver's outcome
cursor_execute(w, c, query, params, out) ==
    driver_execute([w EXCEPT !.sent = Append(@, [call |-> c, query |-> query,
                                                 params |-> params])],
                   c, out)

\* cursor.fetchall(): the rows of the result set, as a list
driver_fetchall(w, rows) == [w EXCEPT !.rows = rows]

\* connection.commit()
driver_commit(w, out) ==
    IF out = "commit_error" THEN Raise(Log(w, "commit", FALSE), "Error")
    ELSE Log(w, "commit", TRUE)

\* connection.rollback(): raises Error on a connection that is gone
driver_rollback(w) ==
    IF IsLive(w) THEN Log(w, "rollback", TRUE)
    ELSE Raise(Log(w, "rollback", FALSE), "Error")

\* ------------------------------------------------- idle-timeout variant
\* mutant: close() does not ask the driver whether the handle is still open
close_unchecked(w) ==
    IF w.connection # None THEN Return(driver_close(w), "None")
    ELSE Return(w, "None")

close(w) ==
    IF IsLive(w) THEN Return(driver_close(w), "None") ELSE Return(w, "None")

\* mutant: connect() tries the driver a second time when the first try fails
connect_retry(w, t, ok) ==
    LET connected(v) ==
            IF v.raised = "none"
            THEN Return([v EXCEPT !.last_active_time = t], "None")
            ELSE v
        retried(v) ==
            IF v.raised = "none" THEN v
            ELSE driver_connect([v EXCEPT !.raised = "none"], ok)
    IN  IF IsLive(w) THEN Return(w, "None")
        ELSE connected(retried(driver_connect(w, ok)))

\* mutant: connect() asks the driver for a handle without looking at the
\* handle it holds
connect_unguarded(w, t, ok) ==
    LET connected(v) ==
            IF v.raised = "none"
            THEN Return([v EXCEPT !.last_active_time = t], "None")
            ELSE v
    IN  connected(driver_connect(w, ok))

connect(w, t, ok) ==
    LET connected(v) ==
            IF v.raised = "none"
            THEN Return([v EXCEPT !.last_active_time = t], "None")
            ELSE v
    IN  IF IsLive(w) THEN Return(w, "None")
        ELSE connected(driver_connect(w, ok))

\* mutant: the comparison of the idle check is inverted
_handle_idle_connection_inverted(w, t, to) ==
    IF IsLive(w)
    THEN IF t - w.last_active_time < to THEN close(w) ELSE w
    ELSE w

\* mutant: the idle check never closes the handle
_handle_idle_connection_never(w, t, to) == w

\* mutant: the idle check also closes a handle idle for exactly idle_timeout
_handle_idle_connection_inclusive(w, t, to) ==
    IF IsLive(w)
    THEN IF t - w.last_active_time >= to THEN close(w) ELSE w
    ELSE w

_handle_idle_connection(w, t, to) ==
    IF IsLive(w)
    THEN IF t - w.last_active_time > to THEN close(w) ELSE w
    ELSE w

\* mutant: is_connected() reports the liveness it saw before the idle check
is_connected_stale(w, t, to) ==
    Return(_handle_idle_connection(w, t, to), IF IsLive(w) THEN "True" ELSE "False")

\* mutant: is_connected() reconnects when it finds no live handle
is_connected_reconnecting(w, t, to) ==
    LET checked(v) ==
            IF IsLive(v) THEN Return(v, "True")
            ELSE Return(connect(v, t, TRUE), "True")
    IN  checked(_handle_idle_connection(w, t, to))

is_connected(w, t, to) ==
    LET checked(v) == Return(v, IF IsLive(v) THEN "True" ELSE "False")
    IN  checked(_handle_idle_connection(w, t, to))

\* mutant: the reconnect step checks the connection but never reconnects
_reconnect_if_needed_skipped(w, t, to, ok) == is_connected(w, t, to)

_reconnect_if_needed(w, t, to, ok) ==
    LET reconnect(v) == IF v.ret = "False" THEN connect(v, t, ok) ELSE v
    IN  reconnect(is_connected(w, t, to))

\* mutant: the except clause re-raises without rolling back
_raise_without_rollback(w) == Raise(w, "Error")

\* the rollback of the except clause, then "raise e"
_rollback_and_raise(w) == Raise(driver_rollback([w EXCEPT !.raised = "none"]), "Error")

\* mutant: a successful statement does not refresh last_active_time
_execute_query_unstamped(w, t, to, query, params, ok, out) ==
    LET executed(x) ==
            IF x.raised # "none" THEN _rollback_and_raise(x)
            ELSE Return(x, "cursor")
        with_cursor(c) ==
            IF c.raised # "none" THEN _rollback_and_raise(c)
            ELSE executed(cursor_execute(c, "execute", query, params, out))
        reconnected(r) ==
            IF r.raised # "none" THEN r ELSE with_cursor(driver_cursor(r))
    IN  reconnected(_reconnect_if_needed(w, t, to, ok))

\* each step is applied to the world the step before it left
_execute_query(w, t, to, query, params, ok, out) ==
    LET executed(x) ==
            IF x.raised # "none" THEN _rollback_and_raise(x)
            ELSE Return([x EXCEPT !.last_active_time = t], "cursor")
        with_cursor(c) ==
            IF c.raised # "none" THEN _rollback_and_raise(c)
            ELSE executed(cursor_execute(c, "execute", query, params, out))
        reconnected(r) ==
            IF r.raised # "none" THEN r ELSE with_cursor(driver_cursor(r))
    IN  reconnected(_reconnect_if_needed(w, t, to, ok))

\* "except Error as e: ... return None" (and, in the simple variant, the
\* except clauses that only print): the error is swallowed
Caught(w) == Return([w EXCEPT !.raised = "none"], "None")

\* cursor = self._execute_query(...); self.connection.commit(); return val
\* inside "try: ... except Error as e: raise e"
\* mutant: the commit sits in a finally clause and runs after a failed
\* statement too
_write_commit_always(w, t, to, query, params, ok, out, val) ==
    LET committed(c) == IF c.raised # "none" THEN c ELSE Return(c, val)
        executed(x) ==
            IF x.raised # "none"
            THEN Raise(driver_commit([x EXCEPT !.raised = "none"], out), "Error")
            ELSE committed(driver_commit(x, out))
    IN  executed(_execute_query(w, t, to, query, params, ok, out))

_write(w, t, to, query, params, ok, out, val) ==
    LET committed(c) == IF c.raised # "none" THEN c ELSE Return(c, val)
        executed(x) ==
            IF x.raised # "none" THEN x ELSE committed(driver_commit(x, out))
    IN  executed(_execute_query(w, t, to, query, params, ok, out))

\* mutant: the values are bound in the reverse of the column order
insert_one_reversed(w, t, to, data, ok, out) ==
    _write(w, t, to, InsertQuery(data),
           Tuple([i \in DOMAIN data |-> data[Len(data) + 1 - i].value]),
           ok, out, "lastrowid")

insert_one(w, t, to, data, ok, out) ==
    _write(w, t, to, InsertQuery(data), Tuple(values(data)), ok, out, "lastrowid")

\* mutant: the empty list is rejected only after the connection was checked
insert_many_late_check(w, t, to, data_list, ok, out) ==
    LET rejected(r) == IF r.raised # "none" THEN r ELSE Raise(r, "ValueError")
    IN  IF data_list = <<>> THEN rejected(_reconnect_if_needed(w, t, to, ok))
        ELSE _write(w, t, to, InsertQuery(data_list[1]), TupleList(data_list),
                    ok, out, "lastrowid")

\* values = [tuple(data.values()) for data in data_list];
\* cursor = self._execute_query(query, values): the list goes to cursor.execute
insert_many(w, t, to, data_list, ok, out) ==
    IF data_list = <<>> THEN Raise(w, "ValueError")
    ELSE _write(w, t, to, InsertQuery(data_list[1]), TupleList(data_list),
                ok, out, "lastrowid")

update(w, t, to, data, ok, out) ==
    _write(w, t, to, UpdateQuery(data), Tuple(values(data)), ok, out, "rowcount")

delete(w, t, to, ok, out) ==
    _write(w, t, to, DeleteQuery, NoParams, ok, out, "rowcount")

\* mutant: get() returns None when the result set is empty
get_none_when_empty(w, t, to, ok, out, rows) ==
    LET executed(x) ==
            IF x.raised # "none" \/ rows = <<>> THEN Caught(x)
            ELSE Return(driver_fetchall(x, rows), "rows")
    IN  executed(_execute_query(w, t, to, SelectQuery, NoParams, ok, out))

\* result = cursor.fetchall(); return result
get(w, t, to, ok, out, rows) ==
    LET executed(x) ==
            IF x.raised # "none" THEN Caught(x)
            ELSE Return(driver_fetchall(x, rows), "rows")
    IN  executed(_execute_query(w, t, to, SelectQuery, NoParams, ok, out))

execute_query(w, t, to, select, ok, out, rows) ==
    LET committed(c) ==
            IF c.raised # "none" THEN Caught(c) ELSE Return(c, "rowcount")
        executed(x) ==
            IF x.raised # "none" THEN Caught(x)
            ELSE IF select THEN Return(driver_fetchall(x, rows), "rows")
            ELSE committed(driver_commit(x, out))
    IN  executed(_execute_query(w, t, to, RawQuery(select), NoParams, ok, out))

\* self.connection = None; self.last_active_time = time.time();
\* self.idle_timeout = idle_timeout; self.connect()
__init__(w, t, ok) ==
    connect([w EXCEPT !.connection = None, !.last_active_time = t], t, ok)

\* ------------------------------------------------------- simple variant
simple___init__(w) == Return([w EXCEPT !.connection = None], "None")

simple_connect(w, ok) == Caught(driver_connect(w, ok))

simple_is_connected(w) ==
    IF w.connection # None
    THEN Return(w, IF w.connection \in w.live THEN "True" ELSE "False")
    ELSE Return(w, "False")

simple_close(w) ==
    IF IsLive(w) THEN Return(driver_close(w), "None") ELSE Return(w, "None")

\* the try block shared by the data operations: cursor, execute (or
\* executemany), then commit unless the statement is a SELECT; any Error is
\* printed and the method falls through
simple_try(w, c, query, params, out, commits, val) ==
    LET committed(m) == IF m.raised # "none" THEN Caught(m) ELSE Return(m, val)
        executed(x) ==
            IF x.raised # "none" THEN Caught(x)
            ELSE IF ~commits THEN Return(x, val)
            ELSE committed(driver_commit(x, out))
        with_cursor(k) ==
            IF k.raised # "none" THEN Caught(k)
            ELSE executed(cursor_execute(k, c, query, params, out))
    IN  with_cursor(driver_cursor(w))

\* no return statement: the method returns None
simple_insert_one(w, data, out) ==
    IF w.connection = None THEN Raise(w, "Exception")
    ELSE simple_try(w, "execute", InsertQuery(data), Tuple(values(data)),
                    out, TRUE, "None")

simple_insert_many(w, data_list, out) ==
    IF w.connection = None THEN Raise(w, "Exception")
    ELSE IF data_list = <<>> THEN Raise(w, "ValueError")
    ELSE simple_try(w, "executemany", InsertQuery(data_list[1]),
                    TupleList(data_list), out, TRUE, "None")

simple_update(w, data, out) ==
    IF w.connection = None THEN Raise(w, "Exception")
    ELSE simple_try(w, "execute", UpdateQuery(data), Tuple(values(data)),
                    out, TRUE, "None")

simple_delete(w, out) ==
    IF w.connection = None THEN Raise(w, "Exception")
    ELSE simple_try(w, "execute", DeleteQuery, NoParams, out, TRUE, "None")

\* "result = cursor.fetchall(); return result" after the execute of the try
\* block: reached only when the statement ran
simple_fetch(x, rows) == IF x.ret = "rows" THEN driver_fetchall(x, rows) ELSE x

simple_get(w, out, rows) ==
    IF w.connection = None THEN Raise(w, "Exception")
    ELSE simple_fetch(simple_try(w, "execute", SelectQuery, NoParams,
                                 out, FALSE, "rows"), rows)

simple_execute_query(w, select, out, rows) ==
    IF w.connection = None THEN Raise(w, "Exception")
    ELSE IF select
    THEN simple_fetch(simple_try(w, "execute", RawQuery(select), NoParams,
                                 out, FALSE, "rows"), rows)
    ELSE simple_try(w, "execute", RawQuery(select), NoParams, out, TRUE, "None")

\* ---------------------------------------------------------- state machine
NumCalls(s, c) == Cardinality({i \in DOMAIN s : s[i].call = c})

\* the manager and the driver as the next operation finds them
World ==
    [connection |-> connection, last_active_time |-> last_active_time,
     live |-> live, opened |-> opened,
     calls |-> <<>>, raised |-> "none", ret |-> "None", rows |-> <<>>,
     sent |-> <<>>]

\* how an operation ended, as its caller sees it
Outcome(v) ==
    IF v.raised # "none" THEN [kind |-> "raise", val |-> v.raised]
    ELSE [kind |-> "return", val |-> v.ret]

QueryOps == {"execute_query", "insert_one", "insert_many", "update", "delete", "get"}

ConnectFailed(s) == \E i \in DOMAIN s : s[i].call = "connect" /\ ~s[i].ok

\* the manager as an operation finds it, with what the caller did just before:
\* afterClose: the operation before was close(); afterFailedConnect: it was a
\* query operation in which the driver's connect failed
Snapshot ==
    [connection |-> connection, live |-> live,
     last_active_time |-> last_active_time, time |-> now,
     afterClose |-> lastOp = "close",
     afterFailedConnect |-> lastOp \in QueryOps /\ ConnectFailed(calls)]

\* the driver lost the connection while a statement was running
Lost(v) ==
    \E i \in DOMAIN v.calls :
        /\ v.calls[i].call \in {"execute", "executemany"}
        /\ ~v.calls[i].ok
        /\ v.calls[i].h \notin v.live

NoHist == [prevOp |-> 0, nearPrev |-> FALSE, nearActive |-> FALSE, quiet |-> FALSE]

\* History of the idle-timeout manager's operation sequence, kept while the
\* sequence consists of is_connected and query operations only and the driver
\* has not dropped the handle:
\*   nearPrev    every operation started less than idle_timeout after the
\*               operation before it (the construction, for the first)
\*   nearActive  every operation started less than idle_timeout after
\*               last_active_time
Track(op, v) ==
    IF variant # "idle" \/ ~hist.quiet \/ op \in {"connect", "close"} \/ Lost(v)
    THEN NoHist
    ELSE LET np == hist.nearPrev /\ now - hist.prevOp < idle_timeout
             na == hist.nearActive /\ now - last_active_time < idle_timeout
         IN  IF np \/ na
             THEN [prevOp |-> now, nearPrev |-> np, nearActive |-> na, quiet |-> TRUE]
             ELSE NoHist

\* the operation used the connection successfully: the driver's connect
\* returned a handle, or a statement executed without error
SuccessfulUse(s) ==
    \E i \in DOMAIN s :
        s[i].ok /\ s[i].call \in {"connect", "execute", "executemany"}

\* the public operation op(arg) ran from World to v
Apply(op, arg, v) ==
    /\ v.opened <= MaxHandles
    /\ connection' = v.connection
    /\ last_active_time' = v.last_active_time
    /\ live' = v.live
    /\ opened' = v.opened
    /\ lastOp' = op
    /\ lastArg' = arg
    /\ calls' = v.calls
    /\ result' = Outcome(v)
    /\ pre' = Snapshot
    /\ atReturn' = TRUE
    /\ hist' = Track(op, v)
    /\ lastUse' = IF variant = "idle" /\ SuccessfulUse(v.calls) THEN now ELSE lastUse
    /\ fetched' = v.rows
    /\ sent' = v.sent
    /\ UNCHANGED <<variant, phase, idle_timeout, now>>

Finish(op, arg, r) == phase = "ready" /\ \E v \in {r} : Apply(op, arg, v)

Init ==
    /\ variant \in Variants
    /\ phase = "none"
    /\ idle_timeout = 0
    /\ now = 0
    /\ connection = None
    /\ last_active_time = 0
    /\ live = {}
    /\ opened = 0
    /\ lastOp = ""
    /\ lastArg = ""
    /\ calls = <<>>
    /\ result = [kind |-> "return", val |-> "None"]
    /\ pre = [connection |-> None, live |-> {}, last_active_time |-> 0, time |-> 0,
              afterClose |-> FALSE, afterFailedConnect |-> FALSE]
    /\ atReturn = FALSE
    /\ hist = NoHist
    /\ lastUse = 0
    /\ fetched = <<>>
    /\ sent = <<>>

\* MySQLWrapper(host, user, password, database[, idle_timeout]); when the
\* eager connect of the idle-timeout variant raises, no object exists
Construct ==
    /\ phase = "none"
    /\ \E to \in IdleTimeouts, ok \in BOOLEAN :
        LET v == IF variant = "idle" THEN __init__(World, now, ok)
                 ELSE simple___init__(World)
        IN  /\ variant = "simple" => (to = 0 /\ ok)
            /\ phase' = IF v.raised = "none" THEN "ready" ELSE "none"
            /\ idle_timeout' = IF v.raised = "none" THEN to ELSE 0
            /\ connection' = v.connection
            /\ last_active_time' = v.last_active_time
            /\ live' = v.live
            /\ opened' = v.opened
            /\ lastOp' = "__init__"
            /\ lastArg' = ""
            /\ calls' = v.calls
            /\ result' = Outcome(v)
            /\ pre' = Snapshot
            /\ atReturn' = TRUE
            /\ hist' = IF variant = "idle" /\ v.raised = "none"
                       THEN [prevOp |-> now, nearPrev |-> TRUE,
                             nearActive |-> TRUE, quiet |-> TRUE]
                       ELSE NoHist
            /\ lastUse' = IF variant = "idle" /\ SuccessfulUse(v.calls) THEN now ELSE lastUse
            /\ fetched' = v.rows
            /\ sent' = v.sent
            /\ UNCHANGED <<variant, now>>

\* Inputs of an operation: what the driver answers to the calls the operation
\* makes. The driver's connect is asked only when the operation reaches it (no
\* live handle is left after the idle check), and a statement gets an outcome
\* only when the operation reaches its cursor; commits tells whether the
\* operation commits after its statement.
ConnectAnswers ==
    IF variant = "idle" /\ ~IsLive(_handle_idle_connection(World, now, idle_timeout))
    THEN BOOLEAN ELSE {TRUE}

StatementAnswers(ok, commits) ==
    IF (variant = "idle" /\ ok) \/ (variant = "simple" /\ IsLive(World))
    THEN IF commits THEN Outcomes ELSE Outcomes \ {"commit_error"}
    ELSE {"ok"}

\* a result set is fetched only when the statement ran
FetchAnswers(ok, out) ==
    IF StatementAnswers(ok, FALSE) # {"ok"} /\ out = "ok" THEN Rows ELSE {<<>>}

Connect ==
    \E ok \in BOOLEAN :
        Finish("connect", "",
               IF variant = "idle" THEN connect(World, now, ok)
               ELSE simple_connect(World, ok))

IsConnected ==
    Finish("is_connected", "",
           IF variant = "idle" THEN is_connected(World, now, idle_timeout)
           ELSE simple_is_connected(World))

Close ==
    Finish("close", "",
           IF variant = "idle" THEN close(World) ELSE simple_close(World))

InsertOne ==
    \E data \in Records, ok \in ConnectAnswers :
        \E out \in StatementAnswers(ok, TRUE) :
            Finish("insert_one", "",
                   IF variant = "idle"
                   THEN insert_one(World, now, idle_timeout, data, ok, out)
                   ELSE simple_insert_one(World, data, out))

InsertMany ==
    \/ Finish("insert_many", "empty",
              IF variant = "idle"
              THEN insert_many(World, now, idle_timeout, <<>>, TRUE, "ok")
              ELSE simple_insert_many(World, <<>>, "ok"))
    \/ \E data_list \in DataLists \ {<<>>}, ok \in ConnectAnswers :
        \E out \in StatementAnswers(ok, TRUE) :
            Finish("insert_many", "records",
                   IF variant = "idle"
                   THEN insert_many(World, now, idle_timeout, data_list, ok, out)
                   ELSE simple_insert_many(World, data_list, out))

Update ==
    \E data \in {Record(MaxFields, 1)}, ok \in ConnectAnswers :
        \E out \in StatementAnswers(ok, TRUE) :
            Finish("update", "",
                   IF variant = "idle"
                   THEN update(World, now, idle_timeout, data, ok, out)
                   ELSE simple_update(World, data, out))

Delete ==
    \E ok \in ConnectAnswers : \E out \in StatementAnswers(ok, TRUE) :
        Finish("delete", "",
               IF variant = "idle" THEN delete(World, now, idle_timeout, ok, out)
               ELSE simple_delete(World, out))

Get ==
    \E ok \in ConnectAnswers : \E out \in StatementAnswers(ok, FALSE) :
        \E rows \in FetchAnswers(ok, out) :
            Finish("get", "",
                   IF variant = "idle"
                   THEN get(World, now, idle_timeout, ok, out, rows)
                   ELSE simple_get(World, out, rows))

ExecuteQuery ==
    \E select \in BOOLEAN, ok \in ConnectAnswers :
        \E out \in StatementAnswers(ok, ~select) :
            \E rows \in IF select THEN FetchAnswers(ok, out) ELSE {<<>>} :
                Finish("execute_query", IF select THEN "select" ELSE "other",
                       IF variant = "idle"
                       THEN execute_query(World, now, idle_timeout, select, ok, out, rows)
                       ELSE simple_execute_query(World, select, out, rows))

\* time passes between operations (only the idle-timeout variant reads the clock)
Tick ==
    /\ phase = "ready"
    /\ variant = "idle"
    /\ now < MaxTime
    /\ now' = now + 1
    /\ atReturn' = FALSE
    /\ UNCHANGED <<variant, phase, idle_timeout, connection, last_active_time,
                   live, opened, lastOp, lastArg, calls, result, pre, hist,
                   lastUse,
                   fetched,
                   sent>>

\* the server (or the network) drops a live handle between operations
DriverDrop ==
    /\ phase = "ready"
    /\ \E h \in live :
        /\ live' = live \ {h}
        /\ hist' = IF h = connection THEN NoHist ELSE hist
    /\ atReturn' = FALSE
    /\ UNCHANGED <<variant, phase, idle_timeout, now, connection,
                   last_active_time, opened, lastOp, lastArg, calls, result,
                   pre,
                   lastUse,
                   fetched,
                   sent>>

Next ==
    \/ Construct
    \/ Connect
    \/ IsConnected
    \/ Close
    \/ InsertOne
    \/ InsertMany
    \/ Update
    \/ Delete
    \/ Get
    \/ ExecuteQuery
    \/ Tick
    \/ DriverDrop

Spec == Init /\ [][Next]_vars

\* ------------------------------------------------------------------ claims
Idle == phase = "ready" /\ variant = "idle"

PreLive == pre.connection # None /\ pre.connection \in pre.live

PreIdleTime == pre.time - pre.last_active_time

StatementFailed(s) == \E i \in DOMAIN s : s[i].call = "execute" /\ ~s[i].ok

\* the handle opened at construction is still the stored, live handle, and the
\* last operation neither connected (the constructor: once) nor closed
HandleReused ==
    /\ connection = 1 /\ opened = 1 /\ 1 \in live
    /\ NumCalls(calls, "close") = 0
    /\ NumCalls(calls, "connect") = IF lastOp = "__init__" THEN 1 ELSE 0

\* C1 (as stated): in the idle-timeout variant, while every operation of a
\* sequence of is_connected and query operations starts less than idle_timeout
\* after the operation before it and the driver never drops the handle, the
\* handle opened at construction is reused: connect was invoked once, at
\* construction, and the handle was never closed.
C1_ReusedWithinTimeoutOfPreviousOp ==
    (Idle /\ hist.quiet /\ hist.nearPrev) => HandleReused

\* C1 (amended): the same, for sequences in which every operation starts less
\* than idle_timeout after last_active_time, the time of the last successful
\* connect or successfully executed statement.
C1_ReusedWithinTimeoutOfLastActivity ==
    (Idle /\ hist.quiet /\ hist.nearActive) => HandleReused

\* C1 witness: a third operation, two ticks after construction, found the
\* handle fresh because a statement succeeded in between.
C1_Witness ==
    /\ Idle /\ atReturn /\ hist.quiet /\ hist.nearActive
    /\ lastOp \in QueryOps /\ result.kind = "return"
    /\ pre.time >= 2 /\ pre.last_active_time > 0 /\ pre.last_active_time < pre.time

\* C2: in the idle-timeout variant, a query operation that starts with a live
\* handle whose idle time exceeds idle_timeout, and for which the driver's
\* connect succeeds, closes the old handle once, invokes connect exactly once
\* and only then executes its statement, on the new handle.
C2_IdleExpiredReconnectsOnce ==
    (/\ Idle /\ atReturn /\ lastOp \in QueryOps /\ lastArg # "empty"
     /\ PreLive /\ PreIdleTime > idle_timeout
     /\ ~ConnectFailed(calls))
    => /\ Len(calls) >= 4
       /\ calls[1] = Call("close", pre.connection, TRUE)
       /\ calls[2] = Call("connect", connection, TRUE)
       /\ connection # pre.connection
       /\ calls[3] = Call("cursor", connection, TRUE)
       /\ calls[4].call = "execute" /\ calls[4].h = connection
       /\ NumCalls(calls, "close") = 1
       /\ NumCalls(calls, "connect") = 1
       /\ NumCalls(calls, "execute") = 1
       /\ \A i \in 3 .. Len(calls) : calls[i].h = connection

\* C2 witness: insert_one found an idle-expired live handle, reconnected and
\* returned the new row's id.
C2_Witness ==
    /\ Idle /\ atReturn /\ lastOp = "insert_one"
    /\ PreLive /\ PreIdleTime > idle_timeout /\ idle_timeout > 0
    /\ result = [kind |-> "return", val |-> "lastrowid"]
    /\ connection = 2

\* C3: in the idle-timeout variant, when the driver reports an error while a
\* query operation executes its statement, rollback() is called on the handle
\* exactly once, after the failed execute and before the operation ends.
C3_OneRollbackOnQueryError ==
    (Idle /\ atReturn /\ lastOp \in QueryOps /\ StatementFailed(calls))
    => /\ NumCalls(calls, "rollback") = 1
       /\ calls[Len(calls)].call = "rollback"
       /\ calls[Len(calls)].h = connection
       /\ calls[Len(calls) - 1].call = "execute"
       /\ ~calls[Len(calls) - 1].ok

\* C3 witness: update's statement failed on a live handle and the Error
\* reached the caller.
C3_Witness ==
    /\ Idle /\ atReturn /\ lastOp = "update" /\ StatementFailed(calls)
    /\ result = [kind |-> "raise", val |-> "Error"]
    /\ connection \in live

Connected == connection # None /\ connection \in live

Touches(s) == \E i \in DOMAIN s : s[i].call \in {"cursor", "execute", "executemany", "commit"}

\* C4 (as stated): whenever the driver's connect fails inside an operation
\* (constructor, connect(), or the reconnect step of a query operation), the
\* operation ends with an error raised to its caller, the manager is left
\* disconnected and no statement is executed in that call.
C4_ConnectFailureSurfaces ==
    (atReturn /\ ConnectFailed(calls))
    => /\ result.kind = "raise"
       /\ ~Connected
       /\ ~Touches(calls)

\* C5: in the idle-timeout variant, a query operation whose reconnect fails
\* makes exactly one driver connect attempt and nothing after it; the query
\* operation called next makes one fresh connect attempt, first thing, and if
\* it succeeds the statement is executed on the new handle and the operation
\* returns its result when the driver reports no error.
C5_OneAttemptPerCall ==
    /\ (Idle /\ atReturn /\ lastOp \in QueryOps /\ ConnectFailed(calls))
       => /\ NumCalls(calls, "connect") = 1
          /\ calls[Len(calls)].call = "connect"
          /\ ~Touches(calls)
          /\ ~Connected
    /\ (Idle /\ atReturn /\ lastOp \in QueryOps /\ lastArg # "empty"
        /\ pre.afterFailedConnect)
       => /\ NumCalls(calls, "connect") = 1
          /\ calls[1].call = "connect"
          /\ calls[1].ok
             => /\ Len(calls) >= 3
                /\ calls[2] = Call("cursor", connection, TRUE)
                /\ calls[3].call = "execute" /\ calls[3].h = connection
                /\ (\A i \in DOMAIN calls : calls[i].ok)
                   => /\ result.kind = "return" /\ result.val # "None"
                      /\ Connected

\* C5 witness: get() right after a query operation whose connect failed
\* reconnected and returned rows.
C5_Witness ==
    /\ Idle /\ atReturn /\ lastOp = "get" /\ pre.afterFailedConnect
    /\ calls[1] = Call("connect", connection, TRUE)
    /\ result = [kind |-> "return", val |-> "rows"]

\* C6: in the idle-timeout variant, a query operation never takes a cursor
\* on, nor executes a statement on, a handle that is absent or not live; when
\* the manager was disconnected as the operation started, a successful connect
\* precedes the cursor and the cursor is taken on the handle it returned.
C6_NoStatementOnDeadHandle ==
    (Idle /\ atReturn /\ lastOp \in QueryOps)
    => \A i \in DOMAIN calls :
          /\ calls[i].call = "cursor"
             => /\ calls[i].ok /\ calls[i].h # None
                /\ ~PreLive => \E j \in 1 .. (i - 1) :
                                  calls[j] = Call("connect", calls[i].h, TRUE)
          /\ calls[i].call = "execute"
             => /\ i > 1
                /\ calls[i - 1] = Call("cursor", calls[i].h, TRUE)

\* C6 witness: delete() called right after close() reconnected and ran.
C6_Witness ==
    /\ Idle /\ atReturn /\ lastOp = "delete" /\ ~PreLive /\ pre.afterClose
    /\ result = [kind |-> "return", val |-> "rowcount"]

\* C7: close() is idempotent in both variants: it never raises; on a
\* connected manager it calls the driver's close once and leaves the manager
\* disconnected; on a manager that is not connected (closed before, or never
\* connected) it makes no driver call and changes nothing.
C7_CloseIdempotent ==
    (phase = "ready" /\ atReturn /\ lastOp = "close")
    => /\ result = [kind |-> "return", val |-> "None"]
       /\ ~Connected
       /\ connection = pre.connection
       /\ last_active_time = pre.last_active_time
       /\ PreLive => /\ calls = <<Call("close", pre.connection, TRUE)>>
                     /\ live = pre.live \ {pre.connection}
       /\ ~PreLive => calls = <<>> /\ live = pre.live

\* C7 witness: the second of two close() calls in a row, on a manager that
\* had a handle.
C7_Witness ==
    /\ phase = "ready" /\ atReturn /\ lastOp = "close"
    /\ pre.afterClose /\ pre.connection # None /\ calls = <<>>

Unchanged ==
    /\ calls = <<>>
    /\ connection = pre.connection
    /\ live = pre.live
    /\ last_active_time = pre.last_active_time

\* C8 (as stated): insert_many(table, []) raises ValueError in every state of
\* the manager and in both variants, makes no driver call and leaves the
\* handle and last_active_time unchanged.
C8_EmptyBatchAlwaysValueError ==
    (phase = "ready" /\ atReturn /\ lastOp = "insert_many" /\ lastArg = "empty")
    => /\ result = [kind |-> "raise", val |-> "ValueError"]
       /\ Unchanged

\* C8 (amended): insert_many(table, []) always raises, makes no driver call and
\* leaves the handle and last_active_time unchanged; the error is ValueError,
\* except in the simple variant while no handle is stored (connect() never
\* succeeded), where it is the "connection not established" Exception.
C8_EmptyBatchRejectedWithoutIO ==
    (phase = "ready" /\ atReturn /\ lastOp = "insert_many" /\ lastArg = "empty")
    => /\ result.kind = "raise"
       /\ result.val = IF variant = "simple" /\ pre.connection = None
                       THEN "Exception" ELSE "ValueError"
       /\ Unchanged

\* C8 witness: insert_many(table, []) on an idle-expired live handle raised
\* ValueError.
C8_Witness ==
    /\ Idle /\ atReturn /\ lastOp = "insert_many" /\ lastArg = "empty"
    /\ PreLive /\ PreIdleTime > idle_timeout
    /\ result = [kind |-> "raise", val |-> "ValueError"]

\* the operations that run the idle check
IdleChecked ==
    \/ lastOp = "is_connected"
    \/ lastOp \in QueryOps /\ lastArg # "empty"

\* C9 (as stated): a manager constructed with idle_timeout zero or negative
\* never evicts for idleness: no operation closes a live handle because of the
\* elapsed idle time.
C9_NonPositiveTimeoutNeverEvicts ==
    (Idle /\ atReturn /\ idle_timeout <= 0 /\ IdleChecked)
    => NumCalls(calls, "close") = 0

\* C9 (amended): a manager constructed with idle_timeout zero or negative
\* still evicts for idleness: is_connected and the query operations close a
\* live handle exactly when its idle time exceeds idle_timeout, that is on
\* every such call for a negative idle_timeout and as soon as any time has
\* passed since last_active_time for zero.
C9_NonPositiveTimeoutEvictsWhenExceeded ==
    (Idle /\ atReturn /\ idle_timeout <= 0 /\ IdleChecked)
    => NumCalls(calls, "close") =
          IF PreLive /\ (idle_timeout < 0 \/ PreIdleTime > 0) THEN 1 ELSE 0

\* C9 witness: with idle_timeout zero, a query at the very time of the last
\* activity kept the handle.
C9_Witness ==
    /\ Idle /\ atReturn /\ idle_timeout = 0 /\ lastOp = "get"
    /\ PreLive /\ PreIdleTime = 0 /\ pre.time > 0
    /\ calls = <<Call("cursor", connection, TRUE), Call("execute", connection, TRUE)>>

\* C10: is_connected() of the idle-timeout variant first applies the idle
\* check and then reports liveness: it returns True exactly when the handle
\* is present, live and idle for no more than idle_timeout; a live handle idle
\* for longer is closed and False is returned; True is never returned for a
\* handle the call has closed.
C10_IsConnectedAfterIdleCheck ==
    (Idle /\ atReturn /\ lastOp = "is_connected")
    => /\ result.kind = "return"
       /\ result.val \in {"True", "False"}
       /\ result.val = "True" <=> (PreLive /\ PreIdleTime <= idle_timeout)
       /\ result.val = "True" <=> Connected
       /\ (PreLive /\ PreIdleTime > idle_timeout)
          => /\ calls = <<Call("close", pre.connection, TRUE)>>
             /\ result.val = "False"
       /\ ~(PreLive /\ PreIdleTime > idle_timeout) => calls = <<>>
       /\ connection = pre.connection
       /\ last_active_time = pre.last_active_time

\* C10 witness: is_connected() closed an idle-expired handle and returned
\* False.
C10_Witness ==
    /\ Idle /\ atReturn /\ lastOp = "is_connected"
    /\ PreLive /\ PreIdleTime > idle_timeout /\ idle_timeout > 0
    /\ result = [kind |-> "return", val |-> "False"]

\* C11: in the idle-timeout variant, whenever the stored handle is present and
\* live, last_active_time is the time of the most recent successful use of the
\* connection (a driver connect that returned a handle, or a statement that
\* executed without error); is_connected(), close() and operations without a
\* successful use leave last_active_time as they found it.
C11_LastActiveIsLastSuccessfulUse ==
    Idle =>
       /\ Connected => last_active_time = lastUse
       /\ (atReturn /\ lastOp # "__init__"
            /\ (lastOp \in {"is_connected", "close"} \/ ~SuccessfulUse(calls)))
          => last_active_time = pre.last_active_time

\* C11 witness: a statement failed on the live handle some time after the last
\* successful use, and last_active_time still holds the earlier time.
C11_Witness ==
    /\ Idle /\ atReturn /\ Connected
    /\ lastOp \in QueryOps /\ StatementFailed(calls) /\ ~SuccessfulUse(calls)
    /\ last_active_time = lastUse /\ lastUse > 0 /\ lastUse < pre.time

StatementRan(s) == \E i \in DOMAIN s : s[i].call = "execute" /\ s[i].ok

\* C12: in both variants, get() returns the sequence of rows whenever its
\* SELECT ran: a SELECT matching no rows yields an empty sequence, never None.
\* None is returned only when the operation failed (no statement ran).
C12_GetReturnsRowsOnSuccess ==
    (phase = "ready" /\ atReturn /\ lastOp = "get") =>
       /\ StatementRan(calls) =>
              /\ result = [kind |-> "return", val |-> "rows"]
              /\ fetched \in Rows
       /\ result.val = "None" => ~StatementRan(calls) /\ fetched = <<>>
       /\ result.val = "rows" => StatementRan(calls)

\* C12 witness: a SELECT ran and matched no rows; get() returned the empty
\* sequence.
C12_Witness ==
    /\ phase = "ready" /\ atReturn /\ lastOp = "get"
    /\ StatementRan(calls)
    /\ result = [kind |-> "return", val |-> "rows"] /\ fetched = <<>>

AllOk(s) == s # <<>> /\ \A i \in DOMAIN s : s[i].ok

\* the one statement handed to the driver is an INSERT naming the k fields of
\* the record given, with k placeholders, and the record's k values bound in
\* the order of the column names
OneInsertInFieldOrder ==
    /\ Len(sent) = 1
    /\ sent[1].call = "execute"
    /\ sent[1].query.verb = "INSERT"
    /\ sent[1].params.form = "tuple"
    /\ \E k \in 1 .. MaxFields :
          /\ Len(sent[1].query.columns) = k
          /\ Len(sent[1].query.placeholders) = k
          /\ Len(sent[1].params.val) = k
          /\ \A i \in 1 .. k :
                /\ sent[1].query.columns[i] = Record(k, 1)[i].key
                /\ sent[1].query.placeholders[i] = "%s"
                /\ sent[1].params.val[i] = Record(k, 1)[i].value

InsertedOnce ==
    /\ OneInsertInFieldOrder
    /\ NumCalls(calls, "execute") = 1
    /\ NumCalls(calls, "commit") = 1
    /\ calls[Len(calls)].call = "commit"

\* C13 (as stated): in both variants, insert_one with a record of k fields on
\* a working connection (no driver call fails) makes exactly one execute call
\* with an INSERT naming the k fields and carrying k placeholders, binds the
\* k values in the order of the column names, commits exactly once, and
\* returns the cursor's last insert id.
C13_InsertOneReturnsGeneratedId ==
    (phase = "ready" /\ atReturn /\ lastOp = "insert_one" /\ AllOk(calls))
    => /\ InsertedOnce
       /\ result = [kind |-> "return", val |-> "lastrowid"]

\* C13 (amended): the same, except that only the idle-timeout variant returns
\* the cursor's last insert id; the simple variant returns None.
C13_InsertOneOnceInFieldOrder ==
    (phase = "ready" /\ atReturn /\ lastOp = "insert_one" /\ AllOk(calls))
    => /\ InsertedOnce
       /\ result = [kind |-> "return",
                    val |-> IF variant = "idle" THEN "lastrowid" ELSE "None"]

\* C13 witness: a record of MaxFields fields was inserted by the idle-timeout
\* variant, after a reconnect, and the last insert id was returned.
C13_Witness ==
    /\ Idle /\ atReturn /\ lastOp = "insert_one" /\ AllOk(calls)
    /\ NumCalls(calls, "connect") = 1
    /\ Len(sent) = 1 /\ Len(sent[1].params.val) = MaxFields
    /\ result.val = "lastrowid"

\* the value tuple of the j-th record of the data_list given
BoundToRecord(vals, j) ==
    /\ Len(vals) = MaxFields
    /\ \A i \in 1 .. MaxFields : vals[i] = Record(MaxFields, j)[i].value

\* C14 (as stated): in both variants, insert_many with n >= 1 records has the
\* driver run one parameterized INSERT once per record, in the order given,
\* each run bound to that record's own tuple of values: one executemany call
\* over the n tuples, or n execute calls with one tuple each. The driver is
\* never handed the list of tuples as the parameters of an execute call.
C14_BatchRunsOncePerRecord ==
    (phase = "ready" /\ atReturn /\ lastOp = "insert_many" /\ sent # <<>>)
    => /\ \A j \in DOMAIN sent :
             /\ sent[j].query.verb = "INSERT"
             /\ sent[j].query = sent[1].query
             /\ ~(sent[j].call = "execute" /\ sent[j].params.form = "list")
       /\ \/ /\ Len(sent) = 1
             /\ sent[1].call = "executemany"
             /\ sent[1].params.form = "list"
             /\ \A j \in DOMAIN sent[1].params.val :
                   BoundToRecord(sent[1].params.val[j], j)
          \/ \A j \in DOMAIN sent :
                /\ sent[j].call = "execute"
                /\ sent[j].params.form = "tuple"
                /\ BoundToRecord(sent[j].params.val, j)

\* C15 (as stated): in the simple variant, every data operation (insert_many
\* with a non-empty list) called while the connection is not established,
\* because connect() was never called or failed (no handle is stored) or
\* because close() was called just before, raises Exception and makes no
\* driver call.
C15_NotEstablishedRaises ==
    (/\ phase = "ready" /\ variant = "simple" /\ atReturn
     /\ lastOp \in QueryOps /\ lastArg # "empty"
     /\ ~PreLive /\ (pre.connection = None \/ pre.afterClose))
    => /\ result = [kind |-> "raise", val |-> "Exception"]
       /\ calls = <<>>

\* C16: the idle-timeout variant never holds or leaks more than one open
\* connection: at most one handle the driver handed out is live, and it is the
\* stored one; the driver's connect is invoked only when the operation found
\* no live handle or has closed the one it found (an idle-expired handle is
\* closed before it is replaced).
C16_AtMostOneLiveHandle ==
    variant = "idle" =>
       /\ Cardinality(live) <= 1
       /\ live \subseteq {connection}
       /\ atReturn =>
             \A i \in DOMAIN calls :
                 calls[i].call = "connect" =>
                    \/ ~PreLive
                    \/ \E j \in 1 .. (i - 1) :
                          calls[j] = Call("close", pre.connection, TRUE)

\* C16 witness: an idle-expired handle was closed and replaced; only the new
\* handle is live.
C16_Witness ==
    /\ Idle /\ atReturn /\ PreLive /\ PreIdleTime > idle_timeout
    /\ NumCalls(calls, "close") = 1 /\ NumCalls(calls, "connect") = 1
    /\ opened = 2 /\ connection = 2 /\ live = {2}

\* C17: in both variants, is_connected() and close() never open a
\* connection: neither invokes the driver's connect, replaces the stored
\* handle or changes last_active_time; their only driver effect is closing
\* the handle they found, so a manager found disconnected (for instance after
\* an idle eviction) is still disconnected after them.
C17_StatusAndCloseNeverConnect ==
    (phase = "ready" /\ atReturn /\ lastOp \in {"is_connected", "close"})
    => /\ NumCalls(calls, "connect") = 0
       /\ connection = pre.connection
       /\ last_active_time = pre.last_active_time
       /\ calls \in {<<>>, <<Call("close", pre.connection, TRUE)>>}
       /\ live = IF calls = <<>> THEN pre.live ELSE pre.live \ {pre.connection}
       /\ ~PreLive => (~Connected /\ calls = <<>>)
       /\ calls # <<>> => PreLive

\* C17 witness: is_connected() was called on a manager whose handle had been
\* closed before (it is stored, not live, and idle for longer than
\* idle_timeout); it reported False and made no driver call.
C17_Witness ==
    /\ Idle /\ atReturn /\ lastOp = "is_connected"
    /\ pre.connection # None /\ ~PreLive /\ PreIdleTime > idle_timeout
    /\ calls = <<>> /\ ~Connected
    /\ result = [kind |-> "return", val |-> "False"]

\* C18: in the idle-timeout variant, a query operation commits at most once,
\* only right after its statement executed without error and on the handle
\* the statement ran on (the stored one); when the statement fails commit is
\* never called; rollback and commit are never both called in one operation;
\* get() and a SELECT through execute_query never commit.
C18_CommitOnlyAfterSuccess ==
    (Idle /\ atReturn /\ lastOp \in QueryOps)
    => /\ NumCalls(calls, "commit") <= 1
       /\ \A i \in DOMAIN calls :
             calls[i].call = "commit" =>
                /\ i > 1
                /\ calls[i - 1] = Call("execute", calls[i].h, TRUE)
                /\ calls[i].h = connection
       /\ StatementFailed(calls) => NumCalls(calls, "commit") = 0
       /\ ~(NumCalls(calls, "rollback") > 0 /\ NumCalls(calls, "commit") > 0)
       /\ (lastOp = "get" \/ lastArg = "select") => NumCalls(calls, "commit") = 0

\* C18 witness: an update reconnected, executed its statement and committed
\* once on the new handle.
C18_Witness ==
    /\ Idle /\ atReturn /\ lastOp = "update" /\ AllOk(calls)
    /\ connection = 2 /\ Len(calls) >= 2
    /\ calls[Len(calls) - 1] = Call("execute", 2, TRUE)
    /\ calls[Len(calls)] = Call("commit", 2, TRUE)
    /\ result = [kind |-> "return", val |-> "rowcount"]

====
